---- MODULE Spec2Model ----
(***************************************************************************)
(* Order lifecycle and reconciliation engine of the Kinguin purchase bot:  *)
(* the purchase store (src/bot/database.py), the per-user staging map and  *)
(* the confirm/cancel handlers (src/bot/telegram_bot.py) and the           *)
(* background poller (src/bot/main.py).  The remote commerce API is the    *)
(* environment: every response is drawn from a small set at the call.      *)
(*                                                                         *)
(* A nullable column or Optional value is a sequence of length <= 1:       *)
(* <<>> is None/NULL, <<x>> is the value x.                                *)
(* Fields that no branch of the code reads (product name, platform,        *)
(* region, total price, the creation time of a link) are left out of the   *)
(* records.                                                                *)
(***************************************************************************)
EXTENDS Integers, Sequences, FiniteSets, Bags, TLC

\* ---------------------------------------------------------------- bounds
\* confirm handlers that may be suspended at the same time
MaxInflight == 2

\* ------------------------------------------------------------ value sets
Users == {1, 2}
\* the values of TELEGRAM_ALLOWED_USERS: empty, or user 1 alone
AllowLists == {{}, {1}}
ProductIds == {101}
Prices == {10}
\* stock levels the API reports, and quantities a /buy asks for
Stock == {0, 1}
Quantities == {0, 1, 2}
\* order ids and statuses the API answers with
OrderIds == {"G1", "G2"}
Terminal == {"completed", "cancelled", "refunded"}
Statuses == {"new", "processing", "completed", "cancelled"}
FunpayIds == {"F1"}
\* history_command: get_user_purchases(user_id, limit=10)
HistoryLimit == 10

None == <<>>
Some(x) == <<x>>

\* kinguin_client.Product
Products == [kinguin_id : ProductIds, price : Prices, qty : Stock]
\* products with a second price, so that two stages of one user can differ
Offers == [kinguin_id : ProductIds, price : Prices \cup {12}, qty : Stock]
\* kinguin_client.OrderKey
Key1 == [serial |-> "ABCD-1234", name |-> "Game X", type |-> "steam"]
Key2 == [serial |-> "EFGH-5678", name |-> "Game X", type |-> "steam"]
\* the lists get_order_keys can return
KeyLists == {<<>>, <<Key1, Key2>>}

\* ----------------------------------------------------- client value sets
\* the paths and methods of the client operations, the timestamps
\* str(int(time.time() * 1000)) can give, the values of KINGUIN_API_SECRET
Paths == {"/order", "/order/G1"}
Methods == {"GET", "POST"}
Timestamps == {"1700000000000", "1700000000001"}
Secrets == {None, Some(""), Some("k1"), Some("k2")}
\* the data argument of _request: absent, or the order_data of create_order
Payloads ==
    {None} \cup {Some([kinguinId |-> k, qty |-> q]) :
                    k \in ProductIds, q \in Quantities \ {0}}
\* the public operations of KinguinClient
ClientOps == {"get_balance", "search_products", "get_product", "create_order",
              "get_order", "get_order_keys", "get_orders"}
\* what the server or the transport can answer to one request
Responses == {"ok", "ok_missing_field", "ok_not_json", "http_error_message",
              "http_error_not_json", "http_error_not_object", "timeout",
              "connection_error"}

VARIABLES
    allowed,      \* config.telegram_allowed_users
    session,      \* KinguinBot.pending_purchases: user -> (product, quantity)
    inflight,     \* confirm handlers suspended between the take and create_order
    store,        \* table purchases, in rowid order
    links,        \* table funpay_links
    clock,        \* datetime.now()
    rec,          \* the state of check_pending_orders: where it is, the
                  \* orders left in this pass, what the API last answered,
                  \* the orders whose processing raised in this pass, and
                  \* the number of passes started so far, modulo 2
    reply,        \* how the last handler run ended: the message it sent,
                  \* and whether the run called the remote API or the store
    outbox,       \* the last message that carried keys, and who sent it
    delivered,    \* order id -> number of messages that carried its keys
    credit,       \* user -> stage operations, minus those cancelled,
                  \* overwritten or aborted, minus create_order calls
    dbcall        \* the last direct call of a Database or KinguinClient
                  \* method

vars == <<allowed, session, inflight, store, links, clock, rec, reply,
          outbox, delivered, credit, dbcall>>

\* ----------------------------------------------------------------- config

\* a check that lets every user in
AllowAll(allow, user_id) == TRUE

\* Config.is_user_allowed
IsUserAllowed(allow, user_id) ==
    IF allow = {} THEN TRUE ELSE user_id \in allow

\* ----------------------------------------------------------------- client

\* "if self.api_secret": neither None nor the empty string
HasSecret(secret) == secret # None /\ secret[1] # ""

\* a message that leaves the timestamp out
MessageWithoutTimestamp(path, method, body, timestamp) ==
    path \o method \o body

\* message = f"{path}{method}{body}{timestamp}"
SignedMessage(path, method, body, timestamp) ==
    path \o method \o body \o timestamp

\* hmac.new(key, message, sha256).hexdigest(), as an ideal keyed hash:
\* the digest determines the key and the message
Hmac(key, message) == [key |-> key, message |-> message]

\* KinguinClient._generate_signature; <<>> stands for the ValueError raised
\* without a secret
GenerateSignature(secret, path, method, body, timestamp) ==
    IF ~HasSecret(secret) THEN None
    ELSE Some(Hmac(secret[1], SignedMessage(path, method, body, timestamp)))

\* one call of _generate_signature: its arguments, the message it signs
\* and what it returns
SignatureCall(secret, path, method, body, timestamp) ==
    [secret |-> secret, path |-> path, method |-> method, body |-> body,
     timestamp |-> timestamp,
     message |-> SignedMessage(path, method, body, timestamp),
     result |-> GenerateSignature(secret, path, method, body, timestamp)]

\* json.dumps(data)
JsonDumps(data) ==
    IF data = None THEN "null"
    ELSE "{\"products\": [{\"kinguinId\": " \o ToString(data[1].kinguinId)
            \o ", \"qty\": " \o ToString(data[1].qty) \o "}]}"

\* a body that is serialized whether or not there is a payload
BodyAlwaysDumped(data) == JsonDumps(data)

\* _request: body = "" and, "if data", body = json.dumps(data)
RequestBody(data) ==
    IF data # None THEN JsonDumps(data) ELSE ""

\* _request: the headers added to those of the session
RequestHeaders(secret, method, path, data, timestamp) ==
    IF HasSecret(secret)
    THEN [signature |-> GenerateSignature(secret, path, method,
                                          RequestBody(data), timestamp),
          timestamp |-> Some(timestamp)]
    ELSE [signature |-> None, timestamp |-> None]

\* _request from session.request on: what the call returns or raises.
\* A non-2xx response whose JSON body is not an object makes
\* error_data.get raise AttributeError inside the except clause; a 2xx
\* response that is not JSON makes response.json() raise an exception that
\* is a RequestException in some releases of requests and a plain
\* ValueError in others.
RequestOutcomes(response) ==
    CASE response \in {"ok", "ok_missing_field"} -> {"return"}
      [] response = "ok_not_json" -> {"KinguinAPIError", "ValueError"}
      [] response \in {"http_error_message", "http_error_not_json"}
            -> {"KinguinAPIError"}
      [] response = "http_error_not_object" -> {"AttributeError"}
      [] response \in {"timeout", "connection_error"} -> {"KinguinAPIError"}

\* the operations that index the response with a required field:
\* get_product (response["kinguinId"]) and search_products
\* (item["kinguinId"])
ReadsRequiredField(op) == op \in {"get_product", "search_products"}

\* a public operation of KinguinClient: _request, then the decoding
ClientOutcomes(op, response) ==
    {IF o = "return" /\ response = "ok_missing_field" /\ ReadsRequiredField(op)
        THEN "KeyError" ELSE o : o \in RequestOutcomes(response)}

\* ------------------------------------------------------------------ store

\* a table without the UNIQUE constraint
NoUniqueConstraint(rows, order_id) == FALSE

\* the UNIQUE constraint on purchases.order_id
OrderIdTaken(rows, order_id) ==
    \E i \in DOMAIN rows : rows[i].order_id = order_id

\* Database.add_purchase: the row the INSERT writes (AUTOINCREMENT id)
AddPurchase(rows, p) ==
    Append(rows, [p EXCEPT !.id = Len(rows) + 1])

\* an UPDATE that sets completed_at only together with the keys
UpdateKeepsTimestamp(rows, order_id, status, keys, now) ==
    LET completed_at == IF status = "completed" THEN Some(now) ELSE None
    IN  [i \in DOMAIN rows |->
            IF rows[i].order_id # order_id THEN rows[i]
            ELSE IF keys # None
                 THEN [rows[i] EXCEPT !.status = status, !.keys = keys,
                                      !.completed_at = completed_at]
                 ELSE [rows[i] EXCEPT !.status = status]]

\* an update that inserts a row when no row has the order id
UpdateOrInsert(rows, order_id, status, keys, now) ==
    IF \E i \in DOMAIN rows : rows[i].order_id = order_id
    THEN [i \in DOMAIN rows |->
            IF rows[i].order_id # order_id THEN rows[i]
            ELSE [rows[i] EXCEPT !.status = status]]
    ELSE Append(rows, [id |-> Len(rows) + 1, user_id |-> 1,
                       order_id |-> order_id, kinguin_id |-> 101,
                       quantity |-> 1, price |-> 10, status |-> status,
                       keys |-> keys, created_at |-> now,
                       completed_at |-> None])

\* Database.update_purchase_status
UpdatePurchaseStatus(rows, order_id, status, keys, now) ==
    LET completed_at == IF status = "completed" THEN Some(now) ELSE None
    IN  [i \in DOMAIN rows |->
            IF rows[i].order_id # order_id THEN rows[i]
            ELSE IF keys # None
                 THEN [rows[i] EXCEPT !.status = status, !.keys = keys,
                                      !.completed_at = completed_at]
                 ELSE [rows[i] EXCEPT !.status = status,
                                      !.completed_at = completed_at]]

\* a WHERE clause that forgets 'cancelled'
PendingUnlessDone(status) ==
    /\ status # "completed"
    /\ status # "refunded"

\* a WHERE clause that forgets 'completed'
PendingUnlessDropped(status) ==
    /\ status # "cancelled"
    /\ status # "refunded"

\* WHERE status NOT IN ('completed', 'cancelled', 'refunded')
IsPendingStatus(status) ==
    /\ status # "completed"
    /\ status # "cancelled"
    /\ status # "refunded"

\* ORDER BY created_at DESC: insertion of row p into a list already in order
RECURSIVE InsertDesc(_, _)
InsertDesc(p, sorted) ==
    IF sorted = <<>> THEN <<p>>
    ELSE IF Head(sorted).created_at >= p.created_at
         THEN <<Head(sorted)>> \o InsertDesc(p, Tail(sorted))
         ELSE <<p>> \o sorted

\* Database.get_pending_purchases
RECURSIVE GetPendingPurchases(_)
GetPendingPurchases(rows) ==
    IF rows = <<>> THEN <<>>
    ELSE LET rest == GetPendingPurchases(SubSeq(rows, 1, Len(rows) - 1))
             last == rows[Len(rows)]
         IN  IF IsPendingStatus(last.status) THEN InsertDesc(last, rest)
             ELSE rest

\* the parameters of Database.add_funpay_link after self
AddFunpayLinkParams == <<"funpay_id", "kinguin_id", "user_id">>

\* funpay_id TEXT PRIMARY KEY: the row an INSERT OR REPLACE displaces
ReplacedBy(l, funpay_id, user_id) ==
    l.funpay_id = funpay_id

\* Database.add_funpay_link: INSERT OR REPLACE INTO funpay_links
AddFunpayLink(table, funpay_id, kinguin_id, user_id) ==
    {l \in table : ~ReplacedBy(l, funpay_id, user_id)}
      \cup {[funpay_id |-> funpay_id, kinguin_id |-> kinguin_id,
              user_id |-> user_id]}

\* Database.remove_funpay_link: DELETE ... WHERE funpay_id = ? AND user_id = ?
RemoveFunpayLink(table, funpay_id, user_id) ==
    {l \in table : ~(l.funpay_id = funpay_id /\ l.user_id = user_id)}

\* Database.get_user_purchases: WHERE user_id = ? ORDER BY created_at DESC
\* LIMIT ?
RECURSIVE UserRowsDesc(_, _)
UserRowsDesc(rows, user_id) ==
    IF rows = <<>> THEN <<>>
    ELSE LET rest == UserRowsDesc(SubSeq(rows, 1, Len(rows) - 1), user_id)
             last == rows[Len(rows)]
         IN  IF last.user_id = user_id THEN InsertDesc(last, rest) ELSE rest

GetUserPurchases(rows, user_id, limit) ==
    LET found == UserRowsDesc(rows, user_id)
    IN  SubSeq(found, 1, IF Len(found) < limit THEN Len(found) ELSE limit)

\* Database.get_funpay_link
GetFunpayLink(table, funpay_id, user_id) ==
    LET hits == {l \in table : l.funpay_id = funpay_id /\ l.user_id = user_id}
    IN  IF hits = {} THEN None ELSE Some(CHOOSE l \in hits : TRUE)

\* Database.get_all_funpay_links: the rows of one user
GetAllFunpayLinks(table, user_id) ==
    {l \in table : l.user_id = user_id}

\* a serialization that yields nothing to store
KeysDropped(keys) == None

\* json.dumps([{"serial": k.serial, "name": k.name, "type": k.type} ...])
KeysJson(keys) ==
    Some([i \in DOMAIN keys |->
            [serial |-> keys[i].serial, name |-> keys[i].name,
             type |-> keys[i].type]])

\* a message that lists the first serial only
FirstSerial(keys) == <<keys[1].serial>>

\* the serials a message lists, in order
Serials(keys) == [i \in DOMAIN keys |-> keys[i].serial]

\* arg: the stock level and the quantity a buy intent was decided on;
\* api, db: the handler run reached a KinguinClient or a Database call
\* ref: the funpay id and the product id a link command was given;
\* order: what create_order and get_order_keys answered to a confirm
NoReply ==
    [to |-> 0, msg |-> "none", arg |-> <<>>, ref |-> <<>>, order |-> <<>>,
     api |-> FALSE, db |-> FALSE]
Msg(user, kind) ==
    [to |-> user, msg |-> kind, arg |-> <<>>, ref |-> <<>>, order |-> <<>>,
     api |-> FALSE, db |-> FALSE]
ApiMsg(user, kind) == [Msg(user, kind) EXCEPT !.api = TRUE]
DbMsg(user, kind) == [Msg(user, kind) EXCEPT !.db = TRUE]
ApiDbMsg(user, kind) == [Msg(user, kind) EXCEPT !.api = TRUE, !.db = TRUE]
\* asked, wrote: the iteration called get_order_keys, and it completed a
\* call of update_purchase_status
NoGot ==
    [order_id |-> "", status |-> "none", keys |-> <<>>, asked |-> FALSE,
     wrote |-> FALSE]
NoCall == [op |-> "none"]
NoNote == [to |-> 0, order_id |-> "", serials |-> <<>>, via |-> "none"]
Note(user, order_id, keys, via) ==
    [to |-> user, order_id |-> order_id, serials |-> Serials(keys), via |-> via]

Init ==
    /\ allowed \in AllowLists
    /\ session = [u \in Users |-> None]
    /\ inflight = EmptyBag
    /\ store = <<>>
    /\ links = {}
    /\ clock = 0
    /\ rec = [pc |-> "sleep", pending |-> <<>>, got |-> NoGot, failed |-> {},
              pass |-> 0]
    /\ reply = NoReply
    /\ outbox = NoNote
    /\ delivered = [o \in OrderIds |-> 0]
    /\ credit = [u \in Users |-> 0]
    /\ dbcall = NoCall

\* ---------------------------------------------------------------- session

\* a stage that keeps the entry already there
StageKeepsFirst(sess, user_id, product, quantity) ==
    IF sess[user_id] # None THEN sess
    ELSE [sess EXCEPT ![user_id] =
             Some([product |-> product, quantity |-> quantity])]

\* self.pending_purchases[user_id] = (product, quantity)
Stage(sess, user_id, product, quantity) ==
    [sess EXCEPT ![user_id] = Some([product |-> product, quantity |-> quantity])]

\* a take that empties the whole map
TakeAll(sess, user_id) == [u \in DOMAIN sess |-> None]

\* a confirm that reads the entry and leaves it in place
TakeKeeps(sess, user_id) == sess

\* del self.pending_purchases[user_id]
Take(sess, user_id) ==
    [sess EXCEPT ![user_id] = None]

\* a buy_command without the stock checks
AnyStock(product, quantity) == TRUE

\* buy_command: neither "product.qty < quantity" nor "product.qty == 0"
InStock(product, quantity) ==
    /\ ~(product.qty < quantity)
    /\ ~(product.qty = 0)

\* --------------------------------------------------------------- handlers

\* KinguinBot.buy_command
BuyAnswered(u, kinguin_id, quantity, answers) ==
    /\ UNCHANGED <<allowed, inflight, store, links, clock, rec, outbox,
                   delivered, dbcall>>
    /\ IF ~IsUserAllowed(allowed, u)
       THEN /\ reply' = Msg(u, "unauthorized")
            /\ UNCHANGED <<session, credit>>
       ELSE IF quantity <= 0
       THEN /\ reply' = Msg(u, "bad_quantity")
            /\ UNCHANGED <<session, credit>>
       ELSE \/ \* get_product raises KinguinAPIError
               /\ reply' = ApiMsg(u, "product_error")
               /\ UNCHANGED <<session, credit>>
            \/ \E product \in answers :
                 /\ product.kinguin_id = kinguin_id
                 /\ IF ~InStock(product, quantity)
                    THEN /\ reply' = [ApiMsg(u, "no_stock") EXCEPT
                                         !.arg = <<product.qty, quantity>>]
                         /\ UNCHANGED <<session, credit>>
                    ELSE /\ session' = Stage(session, u, product, quantity)
                         /\ credit' = [credit EXCEPT ![u] =
                                         IF session[u] = None THEN @ + 1 ELSE @]
                         /\ reply' = [ApiMsg(u, "card") EXCEPT
                                         !.arg = <<product.qty, quantity,
                                                   product.price>>]

\* buy_command against the products of the catalogue
BuyCommand(u, kinguin_id, quantity) ==
    BuyAnswered(u, kinguin_id, quantity, Products)

\* KinguinBot.start_command and KinguinBot.help_command: a fixed text
StartCommand(u) ==
    /\ UNCHANGED <<allowed, session, inflight, store, links, clock, rec,
                   outbox, delivered, credit, dbcall>>
    /\ reply' = IF ~IsUserAllowed(allowed, u) THEN Msg(u, "unauthorized")
                ELSE Msg(u, "welcome")

HelpCommand(u) ==
    /\ UNCHANGED <<allowed, session, inflight, store, links, clock, rec,
                   outbox, delivered, credit, dbcall>>
    /\ reply' = IF ~IsUserAllowed(allowed, u) THEN Msg(u, "unauthorized")
                ELSE Msg(u, "help")

\* KinguinBot.search_command, with a query: search_products raises, or
\* returns no product or some
SearchCommand(u) ==
    /\ UNCHANGED <<allowed, session, inflight, store, links, clock, rec,
                   outbox, delivered, credit, dbcall>>
    /\ IF ~IsUserAllowed(allowed, u)
       THEN reply' = Msg(u, "unauthorized")
       ELSE \E kind \in {"search_error", "search_empty", "search_results"} :
               reply' = ApiMsg(u, kind)

\* KinguinBot.balance_command
BalanceCommand(u) ==
    /\ UNCHANGED <<allowed, session, inflight, store, links, clock, rec,
                   outbox, delivered, credit, dbcall>>
    /\ IF ~IsUserAllowed(allowed, u)
       THEN reply' = Msg(u, "unauthorized")
       ELSE \E kind \in {"balance_error", "balance"} :
               reply' = ApiMsg(u, kind)

\* KinguinBot.history_command
HistoryCommand(u) ==
    /\ UNCHANGED <<allowed, session, inflight, store, links, clock, rec,
                   outbox, delivered, credit, dbcall>>
    /\ IF ~IsUserAllowed(allowed, u)
       THEN reply' = Msg(u, "unauthorized")
       ELSE IF GetUserPurchases(store, u, HistoryLimit) = <<>>
       THEN reply' = DbMsg(u, "history_empty")
       ELSE reply' = DbMsg(u, "history")

\* KinguinBot.order_command, with an order id: get_order raises, or the
\* order is shown (an error of get_order_keys is caught inside)
OrderCommand(u) ==
    /\ UNCHANGED <<allowed, session, inflight, store, links, clock, rec,
                   outbox, delivered, credit, dbcall>>
    /\ IF ~IsUserAllowed(allowed, u)
       THEN reply' = Msg(u, "unauthorized")
       ELSE \E kind \in {"order_error", "order"} : reply' = ApiMsg(u, kind)

\* KinguinBot.link_command: the call of add_funpay_link passes four
\* arguments to a method of three parameters, which raises TypeError before
\* the method body runs
LinkCommand(u, kinguin_id, funpay_id) ==
    /\ UNCHANGED <<allowed, session, inflight, store, clock, rec, outbox,
                   delivered, credit, dbcall>>
    /\ IF ~IsUserAllowed(allowed, u)
       THEN /\ reply' = Msg(u, "unauthorized")
            /\ UNCHANGED links
       ELSE \/ \* get_product raises KinguinAPIError
               /\ reply' = [ApiMsg(u, "link_product_error") EXCEPT
                               !.ref = <<funpay_id, kinguin_id>>]
               /\ UNCHANGED links
            \/ \E product \in Products :
                 /\ product.kinguin_id = kinguin_id
                 /\ LET args == <<funpay_id, kinguin_id, u, product.price>>
                    IN  IF Len(args) # Len(AddFunpayLinkParams)
                        THEN /\ reply' = [ApiMsg(u, "link_crash") EXCEPT
                                            !.ref = <<funpay_id, kinguin_id>>]
                             /\ UNCHANGED links
                        ELSE /\ reply' = [ApiDbMsg(u, "linked") EXCEPT
                                            !.ref = <<funpay_id, kinguin_id>>]
                             /\ links' = AddFunpayLink(links, args[1], args[2],
                                                       args[3])

\* KinguinBot.unlink_command
UnlinkCommand(u, funpay_id) ==
    /\ UNCHANGED <<allowed, session, inflight, store, clock, rec, outbox,
                   delivered, credit, dbcall>>
    /\ IF ~IsUserAllowed(allowed, u)
       THEN /\ reply' = Msg(u, "unauthorized")
            /\ UNCHANGED links
       ELSE /\ links' = RemoveFunpayLink(links, funpay_id, u)
            /\ reply' = [DbMsg(u, IF links' # links THEN "unlinked"
                                  ELSE "unlink_not_found")
                           EXCEPT !.ref = <<funpay_id>>]

\* KinguinBot.links_command: the listing reads link.price, which FunPayLink
\* does not have, so a non-empty list raises AttributeError
LinksCommand(u) ==
    /\ UNCHANGED <<allowed, session, inflight, store, links, clock, rec,
                   outbox, delivered, credit, dbcall>>
    /\ IF ~IsUserAllowed(allowed, u)
       THEN reply' = Msg(u, "unauthorized")
       ELSE LET found == GetAllFunpayLinks(links, u)
            IN  IF found = {} THEN reply' = DbMsg(u, "links_empty")
                ELSE IF \E l \in found : "price" \notin DOMAIN l
                THEN reply' = DbMsg(u, "links_crash")
                ELSE reply' = DbMsg(u, "links")

\* KinguinBot.funpay_command: old_price = link.price raises AttributeError
\* on a found link, because FunPayLink has no attribute price; this happens
\* before get_product and before any staging
FunpayCommand(u, funpay_id) ==
    /\ UNCHANGED <<allowed, inflight, store, links, clock, rec, outbox,
                   delivered, dbcall>>
    /\ IF ~IsUserAllowed(allowed, u)
       THEN /\ reply' = Msg(u, "unauthorized")
            /\ UNCHANGED <<session, credit>>
       ELSE LET link == GetFunpayLink(links, funpay_id, u)
            IN  IF link = None
                THEN /\ reply' = [DbMsg(u, "no_link") EXCEPT
                                    !.ref = <<funpay_id>>]
                     /\ UNCHANGED <<session, credit>>
                ELSE IF "price" \notin DOMAIN link[1]
                THEN /\ reply' = [DbMsg(u, "funpay_crash") EXCEPT
                                    !.ref = <<funpay_id>>]
                     /\ UNCHANGED <<session, credit>>
                ELSE \E product \in Products \cup {None} :
                       IF product = None
                       THEN \* get_product raises KinguinAPIError
                            /\ reply' = [ApiDbMsg(u, "product_error") EXCEPT
                                           !.ref = <<funpay_id>>]
                            /\ UNCHANGED <<session, credit>>
                       ELSE
                       /\ product.kinguin_id = link[1].kinguin_id
                       /\ IF product.qty = 0
                          THEN /\ reply' = [ApiDbMsg(u, "no_stock") EXCEPT
                                              !.arg = <<product.qty, 1>>,
                                              !.ref = <<funpay_id>>]
                               /\ UNCHANGED <<session, credit>>
                          ELSE /\ session' = Stage(session, u, product, 1)
                               /\ credit' = [credit EXCEPT ![u] =
                                     IF session[u] = None THEN @ + 1 ELSE @]
                               /\ reply' = [ApiDbMsg(u, "funpay_card") EXCEPT
                                     !.arg = <<product.qty, 1>>,
                                     !.ref = <<funpay_id,
                                               product.price - link[1].price>>]

\* KinguinBot.button_callback, cancel_purchase
CancelCallback(u) ==
    /\ session' = Take(session, u)
    /\ credit' = [credit EXCEPT ![u] = IF session[u] = None THEN @ ELSE @ - 1]
    /\ reply' = Msg(u, "cancelled")
    /\ UNCHANGED <<allowed, inflight, store, links, clock, rec, outbox,
                   delivered, dbcall>>

\* the (product, quantity) a confirm read from the session of user u
Context(u) ==
    [user |-> u, product |-> session[u][1].product,
     quantity |-> session[u][1].quantity]

\* Purchase(id=None, ..., keys=None, created_at=now): completed_at defaults
\* to None
NewPurchase(c, order_id, status, now) ==
    [id |-> 0, user_id |-> c.user, order_id |-> order_id,
     kinguin_id |-> c.product.kinguin_id, quantity |-> c.quantity,
     price |-> c.product.price, status |-> status, keys |-> None,
     created_at |-> now, completed_at |-> None]

\* KinguinBot._process_purchase from create_order to the reply: no await
\* lies between create_order, add_purchase, get_order_keys and
\* update_purchase_status
PlaceOrder(c) ==
    /\ credit' = [credit EXCEPT ![c.user] = @ - 1]
    /\ \/ \* create_order raises KinguinAPIError
          /\ reply' = ApiMsg(c.user, "purchase_failed")
          /\ UNCHANGED <<store, clock, outbox, delivered>>
       \/ \E order_id \in OrderIds, status \in Statuses :
            IF OrderIdTaken(store, order_id)
            THEN \* sqlite3.IntegrityError leaves the handler
                 /\ reply' = ApiDbMsg(c.user, "crash")
                 /\ UNCHANGED <<store, clock, outbox, delivered>>
            ELSE LET added == AddPurchase(store,
                                  NewPurchase(c, order_id, status, clock))
                     \* the arguments of create_order, its answer, and
                     \* whether get_order_keys raised
                     told(keys, raised) ==
                         [ApiDbMsg(c.user, "purchased") EXCEPT
                            !.order = <<[order_id |-> order_id,
                                         status |-> status, keys |-> keys,
                                         raised |-> raised,
                                         sent |-> [kinguin_id |-> c.product.kinguin_id,
                                                   quantity |-> c.quantity,
                                                   price |-> c.product.price]]>>]
                     done(keys) == told(keys, FALSE)
                 IN  /\ clock' = clock + 1
                     /\ IF status # "completed"
                        THEN /\ store' = added
                             /\ reply' = done(<<>>)
                             /\ UNCHANGED <<outbox, delivered>>
                        ELSE \/ \* get_order_keys raises: logged
                                /\ store' = added
                                /\ reply' = told(<<>>, TRUE)
                                /\ UNCHANGED <<outbox, delivered>>
                             \/ \E keys \in KeyLists :
                                  IF keys = <<>>
                                  THEN /\ store' = added
                                       /\ reply' = done(keys)
                                       /\ UNCHANGED <<outbox, delivered>>
                                  ELSE /\ reply' = done(keys)
                                       /\ store' = UpdatePurchaseStatus(added,
                                             order_id, status, KeysJson(keys),
                                             clock + 1)
                                       /\ outbox' = Note(c.user, order_id,
                                                         keys, "reply")
                                       /\ delivered' = [delivered EXCEPT
                                                          ![order_id] = @ + 1]

\* KinguinBot.button_callback, confirm_purchase, run to its end: the
\* Application is built without concurrent updates, so one handler runs at
\* a time, and the poller shares no state with the take
ConfirmCallback(u) ==
    /\ UNCHANGED <<allowed, inflight, links, rec, dbcall>>
    /\ IF session[u] = None
       THEN /\ reply' = Msg(u, "session_expired")
            /\ UNCHANGED <<session, store, clock, outbox, delivered, credit>>
       ELSE /\ session' = Take(session, u)
            /\ PlaceOrder(Context(u))

\* KinguinBot._process_purchase up to its first await, under concurrent
\* dispatch: the membership test, the read and the del run without a
\* suspension point between them
ConfirmTake(u) ==
    /\ UNCHANGED <<allowed, store, links, clock, rec, outbox, delivered,
                   credit, dbcall>>
    /\ IF session[u] = None
       THEN /\ reply' = Msg(u, "session_expired")
            /\ UNCHANGED <<session, inflight>>
       ELSE /\ BagCardinality(inflight) < MaxInflight
            /\ session' = Take(session, u)
            /\ inflight' = inflight (+) SetToBag({Context(u)})
            /\ reply' = Msg(u, "processing")

\* the await of edit_message_text before create_order raises
ConfirmAbort(c) ==
    /\ BagIn(c, inflight)
    /\ inflight' = inflight (-) SetToBag({c})
    /\ credit' = [credit EXCEPT ![c.user] = @ - 1]
    /\ reply' = Msg(c.user, "crash")
    /\ UNCHANGED <<allowed, session, store, links, clock, rec, outbox,
                   delivered, dbcall>>

\* a suspended confirm handler resumes
ConfirmOrder(c) ==
    /\ BagIn(c, inflight)
    /\ inflight' = inflight (-) SetToBag({c})
    /\ UNCHANGED <<allowed, session, links, rec, dbcall>>
    /\ PlaceOrder(c)

\* ----------------------------------------------------------------- poller

\* a pass that ends at the first order that raises
AbortPass(pending) == <<>>

\* "except Exception" inside the for loop: the loop goes on with the
\* orders after the one that raised
AfterFailure(pending) == Tail(pending)

\* a poller that takes every answer for a change of status
AlwaysChanged(new_status, purchase) == TRUE

\* if new_status != purchase.status
StatusChanged(new_status, purchase) == new_status # purchase.status

\* a poller that asks for keys on every change of status
AlwaysNeedsKeys(new_status) == TRUE

\* if new_status == "completed"
NeedsKeys(new_status) == new_status = "completed"

\* a loop without the outer "except Exception": the task ends
StopsOnError == "stopped"

\* the outer "except Exception" logs, and the loop reaches
\* await asyncio.sleep(60)
AfterPassError == "sleep"

\* check_pending_orders: the sleep returns and
\* pending = bot.db.get_pending_purchases()
PollStart ==
    /\ rec.pc = "sleep"
    /\ rec' = [pc |-> "loop", pending |-> GetPendingPurchases(store),
               got |-> NoGot, failed |-> {}, pass |-> 1 - rec.pass]
    /\ UNCHANGED <<allowed, session, inflight, store, links, clock, reply,
                   outbox, delivered, credit, dbcall>>

\* check_pending_orders: the sleep returns and get_pending_purchases
\* raises (the store cannot be read): caught by the outer except
PollStartFails ==
    /\ rec.pc = "sleep"
    /\ rec' = [pc |-> AfterPassError, pending |-> <<>>,
               got |-> [NoGot EXCEPT !.status = "setup_error"],
               failed |-> {}, pass |-> 1 - rec.pass]
    /\ UNCHANGED <<allowed, session, inflight, store, links, clock, reply,
                   outbox, delivered, credit, dbcall>>

\* check_pending_orders: one iteration of the for loop, up to its await;
\* got holds what get_order and get_order_keys answered
PollOrder ==
    /\ rec.pc = "loop"
    /\ rec.pending # <<>>
    /\ UNCHANGED <<allowed, session, inflight, links, clock, reply, credit,
                   dbcall>>
    /\ LET purchase == Head(rec.pending)
           oid == purchase.order_id
           next(st, ks, asked, wrote) ==
               [pc |-> "loop", pending |-> Tail(rec.pending),
                got |-> [order_id |-> oid, status |-> st, keys |-> ks,
                         asked |-> asked, wrote |-> wrote],
                failed |-> rec.failed, pass |-> rec.pass]
           raised(st, asked) ==
               [pc |-> "loop", pending |-> AfterFailure(rec.pending),
                got |-> [order_id |-> oid, status |-> st, keys |-> <<>>,
                         asked |-> asked, wrote |-> FALSE],
                failed |-> rec.failed \cup {oid}, pass |-> rec.pass]
       IN  \/ \* get_order raises: logged, next order
              /\ rec' = raised("error", FALSE)
              /\ UNCHANGED <<store, outbox, delivered>>
           \/ \* update_purchase_status raises: logged, next order
              /\ \E new_status \in Statuses :
                   /\ StatusChanged(new_status, purchase)
                   /\ rec' = raised("update_error", NeedsKeys(new_status))
              /\ UNCHANGED <<store, outbox, delivered>>
           \/ \E new_status \in Statuses :
                IF ~StatusChanged(new_status, purchase)
                THEN /\ rec' = next(new_status, <<>>, FALSE, FALSE)
                     /\ UNCHANGED <<store, outbox, delivered>>
                ELSE IF ~NeedsKeys(new_status)
                THEN /\ store' = UpdatePurchaseStatus(store, oid, new_status,
                                                      None, clock)
                     /\ rec' = next(new_status, <<>>, FALSE, TRUE)
                     /\ UNCHANGED <<outbox, delivered>>
                ELSE \/ \* get_order_keys raises: logged, next order
                        /\ rec' = raised("keys_error", TRUE)
                        /\ UNCHANGED <<store, outbox, delivered>>
                     \/ \E keys \in KeyLists :
                          IF keys = <<>>
                          THEN /\ rec' = next(new_status, keys, TRUE, FALSE)
                               /\ UNCHANGED <<store, outbox, delivered>>
                          ELSE /\ store' = UpdatePurchaseStatus(store, oid,
                                     new_status, KeysJson(keys), clock)
                               /\ outbox' = Note(purchase.user_id, oid, keys,
                                                 "poller")
                               /\ delivered' = [delivered EXCEPT ![oid] = @ + 1]
                               /\ rec' = [next(new_status, keys, TRUE, TRUE)
                                            EXCEPT !.pc = "sending"]

\* the await of app.bot.send_message returns, or raises (logged, next order)
PollSendDone ==
    /\ rec.pc = "sending"
    /\ \/ rec' = [rec EXCEPT !.pc = "loop"]
       \/ rec' = [rec EXCEPT !.pc = "loop",
                             !.failed = @ \cup {rec.got.order_id}]
    /\ UNCHANGED <<allowed, session, inflight, store, links, clock, reply,
                   outbox, delivered, credit, dbcall>>

\* the for loop is exhausted: await asyncio.sleep(60)
PollSleep ==
    /\ rec.pc = "loop"
    /\ rec.pending = <<>>
    /\ rec' = [rec EXCEPT !.pc = "sleep", !.got = NoGot]
    /\ UNCHANGED <<allowed, session, inflight, store, links, clock, reply,
                   outbox, delivered, credit, dbcall>>

\* run_bot: background_task.cancel(); CancelledError is raised at the await
\* the task is suspended at, the sleep between passes or the send inside
\* one, passes both "except Exception" clauses and ends the task.  Every
\* update_purchase_status the task made has committed before it returned,
\* so nothing is rolled back.
PollCancel ==
    /\ rec.pc \in {"sleep", "sending"}
    /\ rec' = [rec EXCEPT !.pc = "cancelled"]
    /\ UNCHANGED <<allowed, session, inflight, store, links, clock, reply,
                   outbox, delivered, credit, dbcall>>

\* ------------------------------------------- the store, called directly

\* Database.add_purchase: sqlite3.IntegrityError on a taken order_id
DbAddPurchase(c, order_id, status) ==
    /\ IF OrderIdTaken(store, order_id)
       THEN /\ dbcall' = [op |-> "add_purchase", order_id |-> order_id,
                          raised |-> TRUE]
            /\ UNCHANGED <<store, clock>>
       ELSE /\ dbcall' = [op |-> "add_purchase", order_id |-> order_id,
                          raised |-> FALSE]
            /\ store' = AddPurchase(store,
                                    NewPurchase(c, order_id, status, clock))
            /\ clock' = clock + 1
    /\ UNCHANGED <<allowed, session, inflight, links, rec, reply, outbox,
                   delivered, credit>>

\* Database.update_purchase_status; had: completed_at was set before the call
DbUpdateStatus(order_id, status, keys) ==
    /\ store' = UpdatePurchaseStatus(store, order_id, status, keys, clock)
    /\ dbcall' = [op |-> "update_purchase_status", order_id |-> order_id,
                  status |-> status, keys |-> keys, raised |-> FALSE,
                  had |-> \E i \in DOMAIN store :
                             /\ store[i].order_id = order_id
                             /\ store[i].completed_at # None]
    /\ UNCHANGED <<allowed, session, inflight, links, clock, rec, reply,
                   outbox, delivered, credit>>

\* Database.get_pending_purchases
DbGetPending ==
    /\ dbcall' = [op |-> "get_pending_purchases",
                  result |-> GetPendingPurchases(store)]
    /\ UNCHANGED <<allowed, session, inflight, store, links, clock, rec,
                   reply, outbox, delivered, credit>>

\* Database.add_funpay_link
DbAddFunpayLink(funpay_id, kinguin_id, user_id) ==
    /\ links' = AddFunpayLink(links, funpay_id, kinguin_id, user_id)
    /\ dbcall' = [op |-> "add_funpay_link", funpay_id |-> funpay_id,
                  kinguin_id |-> kinguin_id, user_id |-> user_id]
    /\ UNCHANGED <<allowed, session, inflight, store, clock, rec, reply,
                   outbox, delivered, credit>>

\* Database.remove_funpay_link; result: cursor.rowcount > 0
DbRemoveFunpayLink(funpay_id, user_id) ==
    /\ links' = RemoveFunpayLink(links, funpay_id, user_id)
    /\ dbcall' = [op |-> "remove_funpay_link", funpay_id |-> funpay_id,
                  user_id |-> user_id, result |-> links' # links]
    /\ UNCHANGED <<allowed, session, inflight, store, clock, rec, reply,
                   outbox, delivered, credit>>

\* --------------------------------------------- the client, called directly

\* KinguinClient._generate_signature; prev: the call before this one
CallGenerateSignature(secret, path, method, body, timestamp) ==
    /\ dbcall' = [op |-> "_generate_signature",
                  call |-> SignatureCall(secret, path, method, body, timestamp),
                  prev |-> IF dbcall.op = "_generate_signature"
                           THEN Some(dbcall.call) ELSE None]
    /\ UNCHANGED <<allowed, session, inflight, store, links, clock, rec,
                   reply, outbox, delivered, credit>>

\* KinguinClient._request up to session.request: the headers it sends
CallRequest(secret, method, path, data, timestamp) ==
    /\ dbcall' = [op |-> "_request", secret |-> secret, method |-> method,
                  path |-> path, data |-> data, timestamp |-> timestamp,
                  headers |-> RequestHeaders(secret, method, path, data,
                                             timestamp)]
    /\ UNCHANGED <<allowed, session, inflight, store, links, clock, rec,
                   reply, outbox, delivered, credit>>

\* a public operation of KinguinClient, answered by the server
CallClient(op, response) ==
    /\ \E outcome \in ClientOutcomes(op, response) :
          dbcall' = [op |-> op, response |-> response, outcome |-> outcome]
    /\ UNCHANGED <<allowed, session, inflight, store, links, clock, rec,
                   reply, outbox, delivered, credit>>

\* ------------------------------------------------------- specifications

\* the (product, quantity) pairs a confirm can find staged
Contexts ==
    {c \in [user : Users, product : Products, quantity : Quantities] :
        c.quantity > 0 /\ c.product.qty >= c.quantity}

\* the bot as it runs: one handler at a time, and the poller
Next ==
    \/ \E u \in Users, k \in ProductIds, q \in Quantities : BuyCommand(u, k, q)
    \/ \E u \in Users : CancelCallback(u)
    \/ \E u \in Users : ConfirmCallback(u)
    \/ PollStart
    \/ PollStartFails
    \/ PollOrder
    \/ PollSendDone
    \/ PollSleep

Spec == Init /\ [][Next]_vars

\* the poller and the store it reads; every await of the task returns:
\* the sleeps end, and send_message returns or raises
NextPoller ==
    \/ \E c \in Contexts, o \in OrderIds, st \in Statuses :
          DbAddPurchase(c, o, st)
    \/ PollStart
    \/ PollStartFails
    \/ PollOrder
    \/ PollSendDone
    \/ PollSleep

SpecPoller ==
    /\ Init
    /\ [][NextPoller]_vars
    /\ WF_vars(PollStart \/ PollStartFails)
    /\ WF_vars(PollOrder)
    /\ WF_vars(PollSendDone)
    /\ WF_vars(PollSleep)

\* the poller, the store it reads, and the cancellation of the task
NextShutdown ==
    \/ \E c \in Contexts, o \in OrderIds, st \in Statuses :
          DbAddPurchase(c, o, st)
    \/ PollStart
    \/ PollStartFails
    \/ PollOrder
    \/ PollSendDone
    \/ PollSleep
    \/ PollCancel

SpecShutdown == Init /\ [][NextShutdown]_vars

\* buying and confirming, one handler at a time, beside a poller whose
\* awaits all return: the sleeps end, and send_message returns or raises
NextDelivery ==
    \/ \E u \in Users, k \in ProductIds, q \in Quantities : BuyCommand(u, k, q)
    \/ \E u \in Users : ConfirmCallback(u)
    \/ PollStart
    \/ PollStartFails
    \/ PollOrder
    \/ PollSendDone
    \/ PollSleep

SpecDelivery ==
    /\ Init
    /\ [][NextDelivery]_vars
    /\ WF_vars(PollStart \/ PollStartFails)
    /\ WF_vars(PollOrder)
    /\ WF_vars(PollSendDone)
    /\ WF_vars(PollSleep)

\* the handlers under concurrent dispatch, each split at its awaits
NextHandlers ==
    \/ \E u \in Users, k \in ProductIds, q \in Quantities : BuyCommand(u, k, q)
    \/ \E u \in Users, k \in ProductIds, f \in FunpayIds : LinkCommand(u, k, f)
    \/ \E u \in Users, f \in FunpayIds : FunpayCommand(u, f)
    \/ \E u \in Users : CancelCallback(u)
    \/ \E u \in Users : ConfirmTake(u)
    \/ \E c \in Contexts : ConfirmAbort(c)
    \/ \E c \in Contexts : ConfirmOrder(c)

SpecHandlers == Init /\ [][NextHandlers]_vars

\* every handler build_application registers, one run at a time
NextEntry ==
    \/ \E u \in Users : StartCommand(u)
    \/ \E u \in Users : HelpCommand(u)
    \/ \E u \in Users : BalanceCommand(u)
    \/ \E u \in Users : SearchCommand(u)
    \/ \E u \in Users, k \in ProductIds, q \in Quantities : BuyCommand(u, k, q)
    \/ \E u \in Users : HistoryCommand(u)
    \/ \E u \in Users : OrderCommand(u)
    \/ \E u \in Users, k \in ProductIds, f \in FunpayIds : LinkCommand(u, k, f)
    \/ \E u \in Users, f \in FunpayIds : UnlinkCommand(u, f)
    \/ \E u \in Users : LinksCommand(u)
    \/ \E u \in Users, f \in FunpayIds : FunpayCommand(u, f)
    \/ \E u \in Users : CancelCallback(u)
    \/ \E u \in Users : ConfirmCallback(u)

SpecEntry == Init /\ [][NextEntry]_vars

\* staging, cancelling and confirming, one handler at a time, against a
\* catalogue whose answers differ from one /buy to the next
NextStage ==
    \/ \E u \in Users, k \in ProductIds, q \in Quantities :
          BuyAnswered(u, k, q, Offers)
    \/ \E u \in Users : CancelCallback(u)
    \/ \E u \in Users : ConfirmCallback(u)

SpecStage == Init /\ [][NextStage]_vars

\* the purchase store under any caller
NextStore ==
    \/ \E c \in Contexts, o \in OrderIds, st \in Statuses :
          DbAddPurchase(c, o, st)
    \/ \E o \in OrderIds, st \in Statuses,
          keys \in {None} \cup {KeysJson(ks) : ks \in KeyLists \ {<<>>}} :
          DbUpdateStatus(o, st, keys)
    \/ DbGetPending

SpecStore == Init /\ [][NextStore]_vars

\* the API client under any caller
NextClient ==
    \/ \E secret \in Secrets, path \in Paths, method \in Methods,
          body \in {RequestBody(d) : d \in Payloads}, ts \in Timestamps :
          CallGenerateSignature(secret, path, method, body, ts)
    \/ \E secret \in Secrets, method \in Methods, path \in Paths,
          data \in Payloads, ts \in Timestamps :
          CallRequest(secret, method, path, data, ts)
    \/ \E op \in ClientOps, response \in Responses : CallClient(op, response)

SpecClient == Init /\ [][NextClient]_vars

\* the link table under any caller, and the commands that read or write it
NextLinks ==
    \/ \E f \in FunpayIds, k \in ProductIds, u \in Users :
          DbAddFunpayLink(f, k, u)
    \/ \E f \in FunpayIds, u \in Users : DbRemoveFunpayLink(f, u)
    \/ \E u \in Users, k \in ProductIds, f \in FunpayIds : LinkCommand(u, k, f)
    \/ \E u \in Users, f \in FunpayIds : UnlinkCommand(u, f)
    \/ \E u \in Users : LinksCommand(u)
    \/ \E u \in Users, f \in FunpayIds : FunpayCommand(u, f)

SpecLinks == Init /\ [][NextLinks]_vars

\* ----------------------------------------------------------------- claims

InflightOf(u) == {c \in BagToSet(inflight) : c.user = u}
RowsOf(rows, order_id) == {i \in DOMAIN rows : rows[i].order_id = order_id}

\* C1: for every user, under every interleaving of confirm and cancel
\* callbacks, the create_order calls made for the user never outnumber the
\* user's stage operations (not counting the stages that were cancelled,
\* overwritten or aborted).
C1_AtMostOneOrderPerStage ==
    \A u \in Users : credit[u] >= 0

\* C1 witness: two confirmations of one user were suspended together; one
\* has placed its order and the other is still suspended.
C1_Witness ==
    /\ reply.msg = "purchased"
    /\ InflightOf(reply.to) # {}
    /\ store # <<>>

\* C2: a successful take leaves the user's session empty, only a stage by
\* that user fills it again, and a confirm that finds it empty reports
\* "session expired", suspends no handler (so no create_order call follows)
\* and writes nothing to the store.
C2_SecondConfirmExpired ==
    [][\A u \in Users :
        /\ reply' = Msg(u, "processing") => session'[u] = None
        /\ (session[u] = None /\ session'[u] # None)
              => (reply'.to = u /\ reply'.msg = "card")
        /\ (/\ session[u] = None
            /\ reply'.to = u
            /\ reply'.msg \in {"processing", "session_expired"})
              => /\ reply'.msg = "session_expired"
                 /\ UNCHANGED <<session, inflight, store, credit, delivered>>
      ]_vars

\* C2 witness: the first confirm took the entry and is still suspended, and
\* the second confirm of the same user was told the session expired.
C2_Witness ==
    /\ reply.msg = "session_expired"
    /\ InflightOf(reply.to) # {}
    /\ session[reply.to] = None

\* C3: add_purchase with an order id that is already stored raises and
\* leaves the table as it was, and no two stored purchases ever share an
\* order id.
C3_DuplicateOrderRejected ==
    [][/\ \A i, j \in DOMAIN store' :
            store'[i].order_id = store'[j].order_id => i = j
       /\ (/\ dbcall'.op = "add_purchase"
           /\ \E i \in DOMAIN store : store[i].order_id = dbcall'.order_id)
             => (dbcall'.raised /\ store' = store)
      ]_vars

\* C3 witness: a second add_purchase with a stored order id was refused.
C3_Witness ==
    /\ dbcall.op = "add_purchase"
    /\ dbcall.raised
    /\ RowsOf(store, dbcall.order_id) # {}

C5_UpdateStatusTimestamp ==
    dbcall.op = "update_purchase_status" =>
        \A i \in RowsOf(store, dbcall.order_id) :
            /\ store[i].status = dbcall.status
            /\ dbcall.status = "completed" =>
                  /\ store[i].completed_at # None
                  /\ \A k \in DOMAIN GetPendingPurchases(store) :
                        GetPendingPurchases(store)[k].order_id # dbcall.order_id
            /\ dbcall.status # "completed" => store[i].completed_at = None

\* C5 witness: an update to a status other than completed cleared a
\* completion timestamp that was set.
C5_Witness ==
    /\ dbcall.op = "update_purchase_status"
    /\ dbcall.status # "completed"
    /\ dbcall.had
    /\ RowsOf(store, dbcall.order_id) # {}

\* C5 witness of the other case: an update to completed, with keys.
C5_WitnessCompleted ==
    /\ dbcall.op = "update_purchase_status"
    /\ dbcall.status = "completed"
    /\ dbcall.keys # None
    /\ RowsOf(store, dbcall.order_id) # {}

\* C6: a stored purchase has its completion timestamp set if and only if
\* its status is completed.
C6_TimestampIffCompleted ==
    \A i \in DOMAIN store :
        (store[i].completed_at # None) <=> (store[i].status = "completed")

\* C7: when the poller finds a pending purchase completed at the API with a
\* non-empty key list, it stores status completed with the serialized keys
\* and a completion timestamp, and sends the owning user one message that
\* lists the serial of every returned key.
C7_PollerDelivers ==
    [][(/\ rec.pc = "loop"
        /\ rec' # rec
        /\ rec'.got.status = "completed"
        /\ rec'.got.keys # <<>>)
          => LET purchase == Head(rec.pending)
                 oid == purchase.order_id
                 keys == rec'.got.keys
             IN  /\ rec'.got.order_id = oid
                 /\ RowsOf(store', oid) # {}
                 /\ \A i \in RowsOf(store', oid) :
                       /\ store'[i].status = "completed"
                       /\ store'[i].completed_at # None
                       /\ store'[i].keys # None
                       /\ Len(store'[i].keys[1]) = Len(keys)
                       /\ \A k \in DOMAIN keys :
                             store'[i].keys[1][k].serial = keys[k].serial
                 /\ outbox'.via = "poller"
                 /\ outbox'.to = purchase.user_id
                 /\ outbox'.order_id = oid
                 /\ Len(outbox'.serials) = Len(keys)
                 /\ \A k \in DOMAIN keys : outbox'.serials[k] = keys[k].serial
                 /\ delivered' = [delivered EXCEPT ![oid] = delivered[oid] + 1]
                 /\ rec'.pc = "sending"
      ]_vars

\* C7 witness: the poller has stored the keys of an order and is sending
\* them.
C7_Witness ==
    /\ rec.pc = "sending"
    /\ outbox.via = "poller"
    /\ Len(outbox.serials) = 2
    /\ \E i \in RowsOf(store, outbox.order_id) : store[i].completed_at # None

\* C8: the keys of an order are delivered at most once, by the confirm
\* reply or by a poller notification.
C8_AtMostOneDelivery ==
    \A o \in OrderIds : delivered[o] <= 1

\* C8 witness: one order was delivered by the confirm reply and another by
\* the poller, and the poller has started a later pass.
C8_Witness ==
    /\ \A o \in OrderIds : delivered[o] = 1
    /\ outbox.via = "poller"
    /\ rec.pc = "loop"
    /\ rec.got = NoGot
    /\ \E i \in DOMAIN store : store[i].status = "completed" /\ store[i].completed_at # None

\* C9: an order for which no keys were returned is never recorded as
\* completed, so it stays in the pending set.
C9_NoKeysNeverTerminal ==
    \A i \in DOMAIN store :
        store[i].status = "completed" => store[i].keys # None

\* C10: a buy intent whose quantity exceeds the available quantity, or
\* whose product has none available, is rejected and leaves the whole
\* session map as it was; a quick buy that finds no link leaves it too.
C10_RejectedBuyLeavesSession ==
    [][/\ (/\ reply'.arg # <<>>
           /\ (reply'.arg[2] > reply'.arg[1] \/ reply'.arg[1] = 0))
             => (reply'.msg = "no_stock" /\ session' = session)
       /\ reply'.msg \in {"no_stock", "no_link"} => session' = session
      ]_vars

\* C10 witness: a buy intent was rejected for stock while the same user and
\* the other user each had an entry staged.
C10_Witness ==
    /\ reply.msg = "no_stock"
    /\ \A u \in Users : session[u] # None

\* C11: with a non-empty allow-list, no step changes the session entry of a
\* user outside it, suspends a confirm for that user or stores a purchase
\* or a link of that user, and no handler run for that user (commands and
\* the confirm and cancel callbacks alike) reaches a remote API call or a
\* store call; with an empty allow-list no user is turned away.
C11_UnauthorizedNoEffect ==
    [][/\ \A u \in Users :
            (allowed # {} /\ u \notin allowed) =>
                /\ session'[u] = session[u]
                /\ reply'.to = u => (~reply'.api /\ ~reply'.db)
                /\ \A c \in BagToSet(inflight') : c.user # u
                /\ \A i \in DOMAIN store' : store'[i].user_id # u
                /\ \A l \in links' : l.user_id # u
       /\ allowed = {} => reply'.msg # "unauthorized"
      ]_vars

\* C11 witness: a user outside the allow-list pressed confirm, the entry
\* point that has no authorization check, while the allowed user had a
\* purchase staged and another one stored.
C11_Witness ==
    /\ allowed # {}
    /\ reply.to \in Users \ allowed
    /\ reply.msg = "session_expired"
    /\ \E u \in allowed : session[u] # None
    /\ store # <<>>

\* C12: a confirm that finds a staged intent and adds no purchase, because
\* create_order raised or because the insert was refused for a duplicate
\* order id, tells the user that the purchase failed, and leaves the store
\* as it was and the session entry cleared.
C12_FailedConfirmReported ==
    [][\A u \in Users :
          /\ (/\ session[u] # None
              /\ session'[u] = None
              /\ reply'.to = u
              /\ reply'.api
              /\ Len(store') = Len(store))
                => (reply'.msg = "purchase_failed" /\ store' = store)
          /\ (reply'.to = u /\ reply'.msg = "purchase_failed")
                => session'[u] = None
      ]_vars

\* C12 as the code behaves: a confirm whose insert is refused for a
\* duplicate order id ends in an uncaught sqlite3.IntegrityError.
C12_Witness ==
    /\ reply.msg = "crash"
    /\ reply.db
    /\ session[reply.to] = None
    /\ store # <<>>

\* C13: when create_order answers with status completed and get_order_keys
\* returns keys, the confirm itself stores the purchase as completed with
\* the serialized keys and shows the user a message that lists every
\* serial; the poller takes no part in it.
C13_ConfirmDeliversKeys ==
    [][(/\ reply' # reply
        /\ reply'.msg = "purchased"
        /\ reply'.order[1].status = "completed"
        /\ reply'.order[1].keys # <<>>)
          => LET oid == reply'.order[1].order_id
                 keys == reply'.order[1].keys
             IN  /\ RowsOf(store, oid) = {}
                 /\ RowsOf(store', oid) # {}
                 /\ \A i \in RowsOf(store', oid) :
                       /\ store'[i].status = "completed"
                       /\ store'[i].user_id = reply'.to
                       /\ store'[i].keys # None
                       /\ Len(store'[i].keys[1]) = Len(keys)
                       /\ \A k \in DOMAIN keys :
                             store'[i].keys[1][k].serial = keys[k].serial
                 /\ outbox'.via = "reply"
                 /\ outbox'.to = reply'.to
                 /\ outbox'.order_id = oid
                 /\ Len(outbox'.serials) = Len(keys)
                 /\ \A k \in DOMAIN keys : outbox'.serials[k] = keys[k].serial
                 /\ rec' = rec
      ]_vars

\* C13 witness: a confirm has stored and shown both keys of an order while
\* the poller has never run.
C13_Witness ==
    /\ reply.msg = "purchased"
    /\ reply.order[1].status = "completed"
    /\ Len(reply.order[1].keys) = 2
    /\ outbox.via = "reply"
    /\ outbox.order_id = reply.order[1].order_id
    /\ \E i \in RowsOf(store, outbox.order_id) : store[i].keys # None
    /\ rec = [pc |-> "sleep", pending |-> <<>>, got |-> NoGot, failed |-> {},
              pass |-> 0]

\* the inputs of _generate_signature in which two calls differ
SignatureInputs == {"secret", "path", "method", "body", "timestamp"}
Differing(a, b) == {f \in SignatureInputs : a[f] # b[f]}
SignedPair ==
    /\ dbcall.op = "_generate_signature"
    /\ dbcall.prev # None
    /\ HasSecret(dbcall.call.secret)
    /\ HasSecret(dbcall.prev[1].secret)

C15_SignatureHeaders ==
    dbcall.op = "_request" =>
        LET h == dbcall.headers
            body == IF dbcall.data = None THEN "" ELSE JsonDumps(dbcall.data)
        IN  IF HasSecret(dbcall.secret)
            THEN /\ h.signature # None
                 /\ h.timestamp = Some(dbcall.timestamp)
                 /\ h.signature[1].key = dbcall.secret[1]
                 /\ h.signature[1].message =
                       dbcall.path \o dbcall.method \o body \o h.timestamp[1]
            ELSE h.signature = None /\ h.timestamp = None

\* C15 witness: a signed request without a payload.
C15_Witness ==
    /\ dbcall.op = "_request"
    /\ HasSecret(dbcall.secret)
    /\ dbcall.data = None
    /\ dbcall.headers.signature # None
    /\ dbcall.headers.timestamp # None

\* C15 witness of the other case: a request sent with an empty secret.
C15_WitnessNoSecret ==
    /\ dbcall.op = "_request"
    /\ dbcall.secret = Some("")
    /\ dbcall.headers.signature = None

\* C16: a client operation either returns or raises KinguinAPIError, and
\* it raises KinguinAPIError on every transport failure, timeout and
\* non-2xx response.
C16_OnlyApiError ==
    dbcall.op \in ClientOps =>
        /\ dbcall.outcome \in {"return", "KinguinAPIError"}
        /\ dbcall.response \in {"http_error_message", "http_error_not_json",
                                 "http_error_not_object", "timeout",
                                 "connection_error"}
              => dbcall.outcome = "KinguinAPIError"

\* C17: a link written for one user leaves every link of every other user
\* in the table, so that two users can hold a link for the same funpay id
\* at the same time.
C17_LinksPerUser ==
    [][(dbcall' # dbcall /\ dbcall'.op = "add_funpay_link")
          => /\ \A l \in links : l.user_id # dbcall'.user_id => l \in links'
             /\ GetFunpayLink(links', dbcall'.funpay_id, dbcall'.user_id)
                   # None
      ]_vars

\* C18: after a link command of an allowed user for a product that
\* get_product found, get_funpay_link for that funpay id and user returns a
\* link that carries the product id and a price.
C18_LinkCommandStoresLink ==
    [][(reply' # reply /\ reply'.msg \in {"linked", "link_crash"})
          => LET link == GetFunpayLink(links', reply'.ref[1], reply'.to)
             IN  /\ link # None
                 /\ link[1].kinguin_id = reply'.ref[2]
                 /\ "price" \in DOMAIN link[1]
      ]_vars

\* the replies of link_command and unlink_command
LinkReplies == {"link_product_error", "link_crash", "linked", "unlinked",
                "unlink_not_found"}

\* C19: a quick buy of a user for a funpay id that the user has linked ends
\* with a product error, with an out-of-stock message, or with the product
\* staged at quantity 1 and a card that reports the fetched price minus the
\* price stored in the link.
C19_QuickBuyStagesWithDrift ==
    [][\A u \in Users, f \in FunpayIds :
          (/\ reply' # reply
           /\ reply'.to = u
           /\ reply'.ref # <<>>
           /\ reply'.ref[1] = f
           /\ reply'.msg \notin LinkReplies
           /\ GetFunpayLink(links, f, u) # None)
             => \/ reply'.msg = "product_error"
                \/ reply'.msg = "no_stock"
                \/ /\ reply'.msg = "funpay_card"
                   /\ session'[u] # None
                   /\ session'[u][1].quantity = 1
                   /\ reply'.ref[2] = session'[u][1].product.price
                                        - GetFunpayLink(links, f, u)[1].price
      ]_vars

\* C20: an order whose processing raises does not end the pass: the poller
\* goes on with the orders that follow it in the pending list, the pass
\* ends only when the list is used up, and the next pass takes up every
\* order that failed and is still not terminal in the store.
C20_FailureIsolation ==
    [][/\ (rec.pc = "loop" /\ rec'.failed # rec.failed)
            => /\ rec'.pc = "loop"
               /\ rec'.pending = Tail(rec.pending)
               /\ store' = store
       /\ (rec.pc = "loop" /\ rec'.pc = "sleep") => rec.pending = <<>>
       /\ (rec.pc = "sleep" /\ rec'.pc = "loop")
            => \A o \in rec.failed :
                  (\E i \in RowsOf(store, o) : store[i].status \notin Terminal)
                    => \E k \in DOMAIN rec'.pending :
                          rec'.pending[k].order_id = o
      ]_vars

\* C20 witness: in one pass the first order raised and the order after it
\* was processed and its keys are being sent.
C20_Witness ==
    /\ rec.pc = "sending"
    /\ rec.failed # {}
    /\ rec.got.order_id \notin rec.failed
    /\ \E i \in RowsOf(store, rec.got.order_id) : store[i].keys # None

\* C20 witness of the retry: a pass has started with an order that failed
\* in the pass before.
C20_WitnessRetry ==
    /\ rec.pc = "loop"
    /\ rec.failed # {}
    /\ rec.got.status = "completed"
    /\ rec.got.order_id \in rec.failed

\* an error happened in the pass of parity b: an order raised, or the
\* pending list could not be read
PassError(b) ==
    /\ rec.pass = b
    /\ \/ rec.failed # {}
       \/ rec.got.status = "setup_error"

\* C21: the poller never stops because of an error: after an error in a
\* pass, per order or in reading the pending list, a further pass is
\* started.
C21_LoopSurvivesErrors ==
    \A b \in {0, 1} : PassError(b) ~> (rec.pass = 1 - b)

\* C21 witness: a pass in which an order raised has ended, the next pass
\* failed to read the pending list, and the poller sleeps again.
C21_Witness ==
    /\ rec.pc = "sleep"
    /\ rec.got.status = "setup_error"
    /\ rec.pass = 0
    /\ store # <<>>

\* C22: when the poller finds a status that differs from the stored one
\* and is not completed, it writes the new status with no keys: the keys of
\* the row stay as they were, its completion timestamp is unset, no other
\* row changes and no message with keys is sent.
C22_PlainStatusUpdate ==
    [][(/\ rec.pc = "loop"
        /\ rec.pending # <<>>
        /\ rec' # rec
        /\ rec'.got.status \in Statuses \ {"completed"}
        /\ rec'.got.status # Head(rec.pending).status)
          => LET oid == Head(rec.pending).order_id
             IN  /\ Len(store') = Len(store)
                 /\ \A i \in DOMAIN store :
                       IF store[i].order_id = oid
                       THEN store'[i] = [store[i] EXCEPT
                                           !.status = rec'.got.status,
                                           !.completed_at = None]
                       ELSE store'[i] = store[i]
                 /\ outbox' = outbox
                 /\ delivered' = delivered
                 /\ rec'.pc = "loop"
      ]_vars

\* C22 witness: the poller has recorded an order as cancelled, with no
\* keys and no message.
C22_Witness ==
    /\ rec.pc = "loop"
    /\ rec.got.status = "cancelled"
    /\ \E i \in RowsOf(store, rec.got.order_id) :
          /\ store[i].status = "cancelled"
          /\ store[i].keys = None
    /\ delivered[rec.got.order_id] = 0

\* C23: when get_order answers with the status the pending purchase already
\* has, the poller does nothing for that order: it does not call
\* get_order_keys, writes nothing to the store and sends no message.
C23_UnchangedStatusNoAction ==
    [][(/\ rec.pc = "loop"
        /\ rec.pending # <<>>
        /\ rec' # rec
        /\ rec'.got.status = Head(rec.pending).status)
          => /\ ~rec'.got.asked
             /\ ~rec'.got.wrote
             /\ store' = store
             /\ outbox' = outbox
             /\ delivered' = delivered
             /\ rec'.pc = "loop"
             /\ rec'.failed = rec.failed
      ]_vars

\* C23 witness: the poller found an order still processing, as stored, and
\* went on to the next order of the pass.
C23_Witness ==
    /\ rec.pc = "loop"
    /\ rec.got.status = "processing"
    /\ ~rec.got.wrote
    /\ rec.pending # <<>>
    /\ \E i \in RowsOf(store, rec.got.order_id) :
          store[i].status = "processing"

C25_UpdateBeforeNotify ==
    /\ rec.pc = "sending" =>
          /\ RowsOf(store, rec.got.order_id) # {}
          /\ \A i \in RowsOf(store, rec.got.order_id) :
                /\ store[i].status = "completed"
                /\ store[i].keys # None
                /\ Len(store[i].keys[1]) = Len(rec.got.keys)
                /\ store[i].completed_at # None
    /\ rec.pc = "loop" =>
          \A k \in DOMAIN rec.pending :
              delivered[rec.pending[k].order_id] = 0

\* C25 witness: the sending of the keys of an order failed in the pass
\* before, and the pass that followed has started without that order.
C25_Witness ==
    /\ rec.pc = "loop"
    /\ rec.got = NoGot
    /\ outbox.via = "poller"
    /\ delivered[outbox.order_id] = 1
    /\ rec.pending # <<>>
    /\ \A k \in DOMAIN rec.pending :
          rec.pending[k].order_id # outbox.order_id

\* C26: a cancel leaves the user's entry absent and every other entry as it
\* was, answers whether or not an entry was staged, calls neither the API
\* nor the store, and a confirm of that user that starts next is told that
\* the session expired, suspends no handler and orders nothing.
C26_CancelOnlyClears ==
    [][\A u \in Users :
        /\ (reply'.to = u /\ reply'.msg = "cancelled")
              => /\ session' = [session EXCEPT ![u] = None]
                 /\ ~reply'.api
                 /\ ~reply'.db
                 /\ UNCHANGED <<store, inflight, outbox, delivered, clock>>
        /\ (/\ reply.to = u
            /\ reply.msg = "cancelled"
            /\ reply'.to = u
            /\ reply'.msg \in {"processing", "session_expired"})
              => /\ reply'.msg = "session_expired"
                 /\ UNCHANGED <<session, store, inflight, outbox, delivered>>
      ]_vars

\* C26 witness: a user whose earlier confirm is still suspended has staged
\* again and cancelled; the entry is gone and the suspended confirm is not.
C26_Witness ==
    /\ reply.msg = "cancelled"
    /\ session[reply.to] = None
    /\ InflightOf(reply.to) # {}
    /\ credit[reply.to] = 1

\* C27: a confirm that finds an entry and whose create_order succeeds sends
\* the product id, quantity and price of the entry staged last, and the
\* store then ends with a row of the returned order id, that user, product,
\* quantity and price, and the status of the creation response; the entry
\* a /buy stages is the product and quantity of that /buy.
C27_ConfirmOrdersStaged ==
    [][\A u \in Users :
        /\ (reply'.to = u /\ reply'.msg = "card" /\ reply' # reply)
              => /\ session'[u] # None
                 /\ session'[u][1].product.qty = reply'.arg[1]
                 /\ session'[u][1].quantity = reply'.arg[2]
                 /\ session'[u][1].product.price = reply'.arg[3]
        /\ (/\ session[u] # None
            /\ reply'.to = u
            /\ reply'.msg = "purchased"
            /\ Len(store') = Len(store) + 1)
              => LET staged == session[u][1]
                     row == store'[Len(store')]
                     order == reply'.order[1]
                 IN  /\ order.sent = [kinguin_id |-> staged.product.kinguin_id,
                                      quantity |-> staged.quantity,
                                      price |-> staged.product.price]
                     /\ row.order_id = order.order_id
                     /\ row.user_id = u
                     /\ row.kinguin_id = staged.product.kinguin_id
                     /\ row.quantity = staged.quantity
                     /\ row.price = staged.product.price
                     /\ row.status = order.status
      ]_vars

\* C27 witness: two orders of one user were stored at different prices, so
\* at least one of them was staged over an earlier, different entry or
\* after it.
C27_Witness ==
    /\ reply.msg = "purchased"
    /\ Len(store) = 2
    /\ store[1].user_id = reply.to
    /\ store[2].user_id = reply.to
    /\ store[1].price = 10
    /\ store[2].price = 12
    /\ reply.order[1].sent.price = 12

\* C28: update_purchase_status with an order id that no stored purchase has
\* returns without raising and leaves the table as it was.
C28_UnknownOrderNoop ==
    [][(/\ dbcall'.op = "update_purchase_status"
        /\ RowsOf(store, dbcall'.order_id) = {})
          => /\ store' = store
             /\ ~dbcall'.raised
      ]_vars

\* C28 witness: the table holds a purchase, and update_purchase_status was
\* called with keys for an order id it does not hold.
C28_Witness ==
    /\ dbcall.op = "update_purchase_status"
    /\ dbcall.keys # None
    /\ store # <<>>
    /\ RowsOf(store, dbcall.order_id) = {}

\* the replies that tell the user of a KinguinAPIError
ApiErrorReplies == {"product_error", "link_product_error", "purchase_failed"}

\* the handler step that ended with reply r received a KinguinAPIError
ApiErrorReceived(r) ==
    \/ r.msg \in ApiErrorReplies
    \/ r.order # <<>> /\ r.order[1].raised

\* C29: a handler step that receives a KinguinAPIError from the client ends
\* with a reply that reports the error, and leaves the staging map, the
\* purchases and the links as they were.
C29_ApiErrorReported ==
    [][(reply' # reply /\ ApiErrorReceived(reply'))
          => /\ reply'.msg \in ApiErrorReplies
             /\ UNCHANGED <<session, store, links>>
      ]_vars

\* a step of the poller writes, if anything, the status the API answered
\* into the stored row of the order it is at, and adds or drops no row
PollerWritesByUpdate ==
    rec' # rec =>
        /\ Len(store') = Len(store)
        /\ \A i \in DOMAIN store :
              store'[i] # store[i]
                => /\ rec.pending # <<>>
                   /\ store[i].order_id = Head(rec.pending).order_id
                   /\ store'[i].order_id = store[i].order_id
                   /\ store'[i].status = rec'.got.status

\* C30 as stated: a handler step that writes the store only inserts the
\* row of the new order, as add_purchase builds it, and a poller step only
\* updates the stored row of an order.
C30_ConfirmOnlyInserts ==
    [][/\ (rec' = rec /\ store' # store)
            => /\ session[reply'.to] # None
               /\ reply'.order # <<>>
               /\ store' = AddPurchase(store,
                              NewPurchase(Context(reply'.to),
                                          reply'.order[1].order_id,
                                          reply'.order[1].status, clock))
       /\ PollerWritesByUpdate
      ]_vars

\* C30: under every interleaving of confirms with the steps of a pass, a
\* handler step leaves every row that was stored before it as it was and
\* adds at most the row of one order id that was not stored, with the status
\* of the creation response; a poller step only updates the stored row of
\* the order it is at, to the status the API answered.
C30_WritesDisjoint ==
    [][/\ rec' = rec
            => /\ Len(store') \in {Len(store), Len(store) + 1}
               /\ \A i \in DOMAIN store : store'[i] = store[i]
               /\ Len(store') = Len(store) + 1
                     => /\ reply'.order # <<>>
                        /\ store'[Len(store')].order_id = reply'.order[1].order_id
                        /\ store'[Len(store')].status = reply'.order[1].status
                        /\ RowsOf(store, reply'.order[1].order_id) = {}
       /\ PollerWritesByUpdate
      ]_vars

\* C30 witness: a confirm has inserted an order while a pass was under way:
\* the pass took its list when only the older order was stored, and has not
\* reached it yet.
C30_Witness ==
    /\ rec.pc = "loop"
    /\ rec.got = NoGot
    /\ Len(rec.pending) = 1
    /\ Len(store) = 2
    /\ rec.pending[1].order_id = store[1].order_id
    /\ ~(store[2].status \in Terminal)
    /\ reply.msg = "purchased"
    /\ reply.order[1].order_id = store[2].order_id

\* C30 witness: a confirm has inserted an order as completed and written
\* its keys into the row in the same step, while a pass was at another
\* order.
C30_WitnessKeys ==
    /\ rec.pc = "loop"
    /\ rec.pending # <<>>
    /\ reply.msg = "purchased"
    /\ reply.order[1].keys # <<>>
    /\ \A i \in RowsOf(store, reply.order[1].order_id) :
          store[i].keys # None /\ store[i].completed_at # None
    /\ Head(rec.pending).order_id # reply.order[1].order_id

\* in table rows, with the poller at r: the order whose keys were being sent
\* holds status, keys and completion timestamp together, the orders of the
\* pass not reached yet are as the pass read them, and no row holds keys
\* without the completed status and a completion timestamp
CommittedAt(rows, r) ==
    /\ r.got.wrote =>
          /\ RowsOf(rows, r.got.order_id) # {}
          /\ \A i \in RowsOf(rows, r.got.order_id) :
                /\ rows[i].status = "completed"
                /\ rows[i].keys = KeysJson(r.got.keys)
                /\ rows[i].completed_at # None
    /\ \A k \in DOMAIN r.pending :
          \A i \in RowsOf(rows, r.pending[k].order_id) :
              rows[i] = r.pending[k]
    /\ \A i \in DOMAIN rows :
          rows[i].keys # None
            => rows[i].status = "completed" /\ rows[i].completed_at # None

\* C31: the cancellation of the poller, at the sleep or at a send, writes
\* nothing; at that point the order whose keys were being sent holds its
\* whole update, the orders not reached are untouched and no row holds part
\* of an update; and the cancelled task never writes again.
C31_CancelKeepsCommitted ==
    [][/\ (rec.pc # "cancelled" /\ rec'.pc = "cancelled")
            => /\ store' = store
               /\ UNCHANGED <<outbox, delivered>>
               /\ CommittedAt(store', rec')
       /\ rec.pc = "cancelled"
            => /\ rec' = rec
               /\ \A i \in DOMAIN store :
                     i \in DOMAIN store' /\ store'[i] = store[i]
      ]_vars

\* C31 witness: the task was cancelled while it sent the keys of one order,
\* with another order of the pass not reached yet.
C31_Witness ==
    /\ rec.pc = "cancelled"
    /\ rec.got.wrote
    /\ rec.pending # <<>>
    /\ \A i \in RowsOf(store, rec.got.order_id) : store[i].keys # None

\* C31 witness: the task was cancelled in the sleep between two passes,
\* after a pass that wrote.
C31_WitnessSleep ==
    /\ rec.pc = "cancelled"
    /\ rec.got = NoGot
    /\ rec.pass = 1
    /\ \E i \in DOMAIN store : store[i].keys # None

\* C32: the staging map holds at most one entry for a user, and a step that
\* creates, changes or removes the entry of a user is a stage, a cancel or
\* a confirm made for that user: the entries of all other users stay as
\* they were.
C32_SessionIsolation ==
    [][/\ \A u \in Users : Len(session'[u]) <= 1
       /\ \A u \in Users :
             session'[u] # session[u]
               => /\ reply'.to = u
                  /\ reply'.msg \in {"card", "cancelled", "purchased",
                                     "purchase_failed", "crash"}
                  /\ \A v \in Users \ {u} : session'[v] = session[v]
      ]_vars

\* C32 witness: one user has confirmed and been served while the other
\* user's entry, staged at the second price, is still in place.
C32_Witness ==
    /\ reply.msg = "purchased"
    /\ session[reply.to] = None
    /\ \E v \in Users \ {reply.to} :
          /\ session[v] # None
          /\ session[v][1].product.price = 12
          /\ RowsOf(store, "G1") \cup RowsOf(store, "G2") # {}

\* C33: every stored purchase that holds keys has the status completed; a
\* step that writes the keys of a row leaves the row completed, and a row
\* that is completed stays completed.
C33_KeysOnlyWhenCompleted ==
    [][/\ \A i \in DOMAIN store' :
             store'[i].keys # None => store'[i].status = "completed"
       /\ \A i \in DOMAIN store :
             /\ i \in DOMAIN store'
             /\ store'[i].keys # store[i].keys
                   => store'[i].status = "completed"
             /\ store[i].status = "completed"
                   => store'[i].status = "completed"
      ]_vars

\* C33 witness: one purchase holds the keys a confirm wrote, another the
\* keys the poller wrote, and the poller has since started a further pass.
C33_Witness ==
    /\ Len(store) = 2
    /\ store[1].keys # None
    /\ store[2].keys # None
    /\ delivered[store[1].order_id] = 1
    /\ delivered[store[2].order_id] = 1
    /\ outbox.via = "poller"
    /\ reply.msg = "purchased"
    /\ reply.order[1].keys # <<>>
    /\ rec.pc = "loop"
    /\ rec.got = NoGot

\* what the poller last met is a success: the pending list was read, and
\* the order it is at was answered as completed with keys, with no call or
\* send of the pass having raised
PollerServed ==
    /\ rec.failed = {}
    /\ rec.got # NoGot
          => rec.got.status = "completed" /\ rec.got.keys # <<>>

\* the purchase of order o is stored as completed with its keys, and the
\* keys were put into a message to its user
KeysDelivered(o) ==
    /\ delivered[o] >= 1
    /\ \A i \in RowsOf(store, o) :
          store[i].status = "completed" /\ store[i].keys # None

\* the purchase of order o is stored as cancelled
StoredCancelled(o) ==
    \A i \in RowsOf(store, o) : store[i].status = "cancelled"

\* C34: if from some point on every answer the poller gets is completed
\* with keys and nothing raises, then every purchase a confirm stored is
\* in the end stored as completed with its keys, which were put into a
\* message to its user (unless it was stored as cancelled).
C34_EventualDelivery ==
    <>[]PollerServed =>
        \A o \in OrderIds :
            (RowsOf(store, o) # {})
                ~> (KeysDelivered(o) \/ StoredCancelled(o))

====
